---- MODULE Spec2Model ----
(***************************************************************************)
(* Vitality Engine API: the two in-memory stores (chat messages,           *)
(* documents) and the random metrics generator, modelled from              *)
(* src/vitality-engine/app/services/*.py and the endpoints that call them. *)
(***************************************************************************)
EXTENDS Integers, Sequences, FiniteSets, TLC

(* ------------------------------ bounds --------------------------------- *)
\* create_message calls allowed before the model stops accepting them
MaxMessages == 2
\* create_document calls allowed before the model stops accepting them
MaxDocuments == 2
\* clock ticks the wall clock may advance after start-up
MaxClock == 1
\* resolution of the modelled wall clock: ticks in one calendar day
TicksPerDay == 2
\* worker threads that each run one create_message concurrently
NumThreads == 2

(* ------------------------------ inputs --------------------------------- *)
\* request strings; pydantic's `str` fields accept the empty string
Contents == {"", "hi"}
Senders == {"alice", "bob"}
Titles == {"t1"}
Bodies == {"", "c1"}
\* proleptic Gregorian ordinals (date.toordinal) of the days the process may
\* start on: 2024-01-01 (the 7-day window crosses a year end) and
\* 2024-03-02 (the window holds 29 February of a leap year)
StartDays == {738886, 738947}
Threads == 1..NumThreads

VARIABLES
    chat_messages,  \* chat_service.chat_messages, the module-level list
    documents,      \* document_service.documents, the module-level list
    now,            \* the wall clock read by datetime.now(), in ticks
    request,        \* the body of the most recent request the router parsed
    response,       \* the value the most recent handler returned to the router
    last_read,      \* what get_all_messages returned since the last create_message
    pc,             \* per worker thread: position inside create_message
    t_id,           \* per worker thread: the id string it formatted
    t_message,      \* per worker thread: its local new_message
    t_request       \* per worker thread: the ChatMessageCreate it was given

vars == <<chat_messages, documents, now, request, response, last_read,
          pc, t_id, t_message, t_request>>
thread_vars == <<pc, t_id, t_message, t_request>>

(* --------------------- integer and date formatting --------------------- *)
DigitChars == <<"0", "1", "2", "3", "4", "5", "6", "7", "8", "9">>

\* str(n) for n >= 0, as the sequence of its decimal digit characters
RECURSIVE str(_)
str(n) == IF n < 10 THEN <<DigitChars[n + 1]>>
          ELSE str(n \div 10) \o <<DigitChars[(n % 10) + 1]>>

\* zero-padded decimal of fixed width, as %Y (width 4), %m and %d (width 2)
RECURSIVE zero_padded(_, _)
zero_padded(n, width) ==
    IF width = 0 THEN <<>>
    ELSE zero_padded(n \div 10, width - 1) \o <<DigitChars[(n % 10) + 1]>>

DAYS_IN_MONTH == <<31, 28, 31, 30, 31, 30, 31, 31, 30, 31, 30, 31>>
DAYS_BEFORE_MONTH == <<0, 31, 59, 90, 120, 151, 181, 212, 243, 273, 304, 334>>

\* datetime._ord2ymd: ordinal -> (year, month, day), 0001-01-01 is day 1
ord2ymd(ordinal) ==
    LET n0 == ordinal - 1
        n400 == n0 \div 146097
        r400 == n0 % 146097
        n100 == r400 \div 36524
        r100 == r400 % 36524
        n4 == r100 \div 1461
        r4 == r100 % 1461
        n1 == r4 \div 365
        n == r4 % 365
        year == n400 * 400 + 1 + n100 * 100 + n4 * 4 + n1
        leapyear == n1 = 3 /\ (n4 # 24 \/ n100 = 3)
        month0 == (n + 50) \div 32
        preceding0 == DAYS_BEFORE_MONTH[month0]
                        + (IF month0 > 2 /\ leapyear THEN 1 ELSE 0)
        month == IF preceding0 > n THEN month0 - 1 ELSE month0
        preceding == IF preceding0 > n
                     THEN preceding0 - (DAYS_IN_MONTH[month]
                            + (IF month = 2 /\ leapyear THEN 1 ELSE 0))
                     ELSE preceding0
    IN  IF n1 = 4 \/ n100 = 4
        THEN [year |-> year - 1, month |-> 12, day |-> 31]
        ELSE [year |-> year, month |-> month, day |-> n - preceding + 1]

\* today - timedelta(days=d) on a naive datetime held in ticks
minus_days(t, d) == t - d * TicksPerDay

\* datetime.strftime("%Y-%m-%d")
strftime_ymd(t) ==
    LET ymd == ord2ymd(t \div TicksPerDay)
    IN  zero_padded(ymd.year, 4) \o <<"-">> \o zero_padded(ymd.month, 2)
          \o <<"-">> \o zero_padded(ymd.day, 2)

(* ------------------------------ chat store ----------------------------- *)
\* f"msg_{len(chat_messages) + 1}"
message_id_off_by_one(count) == <<"msg_">> \o str(count)
message_id(count) == <<"msg_">> \o str(count + 1)

\* ChatMessage(id=..., content=message.content, sender=message.sender, timestamp=...)
ChatMessage_swapped(id, message, timestamp) ==
    [id |-> id, content |-> message.sender, sender |-> message.content,
     timestamp |-> timestamp]
ChatMessage(id, message, timestamp) ==
    [id |-> id, content |-> message.content, sender |-> message.sender,
     timestamp |-> timestamp]

\* chat_messages.append(new_message)
append_prepends(list, item) == <<item>> \o list
append_overwrites(list, item) == <<item>>
append(list, item) == Append(list, item)

\* get_all_messages(): return chat_messages
get_all_messages_drops_first(list) == IF list = <<>> THEN list ELSE Tail(list)
get_all_messages(list) == list

NoRequest == <<"no request body">>
NoResponse == [op |-> "none", body |-> <<>>]
\* no get_all_messages has returned since the last create_message
NoRead == [fresh |-> FALSE, body |-> <<>>]

ChatMessageCreate(content, sender) == [content |-> content, sender |-> sender]

\* POST /chat-messages/ handled start to finish with no other request running
CreateMessage(content, sender) ==
    /\ Len(chat_messages) < MaxMessages
    /\ request' = ChatMessageCreate(content, sender)
    /\ LET new_message == ChatMessage(message_id(Len(chat_messages)),
                                      request', now)
       IN  /\ chat_messages' = append(chat_messages, new_message)
           /\ response' = [op |-> "create_message", body |-> new_message]
    /\ last_read' = NoRead
    /\ UNCHANGED <<documents, now, thread_vars>>

\* GET /chat-messages/
GetAllMessages ==
    /\ request' = NoRequest
    /\ response' = [op |-> "get_all_messages",
                    body |-> get_all_messages(chat_messages)]
    /\ last_read' = [fresh |-> TRUE, body |-> get_all_messages(chat_messages)]
    /\ UNCHANGED <<chat_messages, documents, now, thread_vars>>

(* ---------------------------- document store --------------------------- *)
\* f"doc_{len(documents) + 1}"
document_id(count) == <<"doc_">> \o str(count + 1)

DocumentCreate(title, content) == [title |-> title, content |-> content]

\* Document(id=..., title=document.title, content=document.content, timestamp=...)
Document_swapped(id, document, timestamp) ==
    [id |-> id, title |-> document.content, content |-> document.title,
     timestamp |-> timestamp]
Document(id, document, timestamp) ==
    [id |-> id, title |-> document.title, content |-> document.content,
     timestamp |-> timestamp]

\* POST /documents/
CreateDocument(title, content) ==
    /\ Len(documents) < MaxDocuments
    /\ request' = DocumentCreate(title, content)
    /\ LET new_document == Document(document_id(Len(documents)),
                                    request', now)
       IN  /\ documents' = append(documents, new_document)
           /\ response' = [op |-> "create_document", body |-> new_document]
    /\ UNCHANGED <<chat_messages, now, last_read, thread_vars>>

\* GET /documents/
GetAllDocuments ==
    /\ request' = NoRequest
    /\ response' = [op |-> "get_all_documents", body |-> documents]
    /\ UNCHANGED <<chat_messages, documents, now, last_read, thread_vars>>

(* ------------------------------ wall clock ----------------------------- *)
StartTimes == {d * TicksPerDay : d \in StartDays}

\* time passes between two requests; the clock never goes backwards
Tick ==
    /\ \E start \in StartTimes : start <= now /\ now < start + MaxClock
    /\ now' = now + 1
    /\ UNCHANGED <<chat_messages, documents, request, response, last_read,
                   thread_vars>>

(* --------------------------- metrics generator ------------------------- *)
\* one draw of the random source, sampled at the two ends of whatever range
\* is asked of it: 0 is the lowest outcome, 1 the highest
RandomSource == {0, 1}

\* Random._randbelow(n): an integer in 0..n-1, for the draw u
randbelow(n, u) == u * (n - 1)

\* random.randint(a, b): randrange(a, b + 1), that is a + _randbelow(b + 1 - a)
randint_shifted(a, b, u) == a + 1 + randbelow(b + 1 - a, u)
randint(a, b, u) == a + randbelow(b + 1 - a, u)

\* Metrics(recovery_score=random.randint(70, 95), ...)
get_metrics(u) ==
    [recovery_score |-> randint(70, 95, u[1]),
     mobility_score |-> randint(60, 90, u[2]),
     pain_level |-> randint(1, 5, u[3]),
     exercises_completed |-> randint(3, 15, u[4]),
     streak_days |-> randint(1, 10, u[5])]

\* timedelta(days=6-i)
days_back_off_by_one(i) == 7 - i
days_back(i) == 6 - i

RecoveryDataPoint(date, score) == [date |-> date, score |-> score]

\* for i in range(7): data.append(RecoveryDataPoint(...)); u[i + 1] is the
\* draw of iteration i
get_recovery_chart_data(today, u) ==
    [k \in 1..7 |->
        LET i == k - 1
            date == minus_days(today, days_back(i))
        IN  RecoveryDataPoint(strftime_ymd(date), randint(65, 95, u[k]))]

\* GET /metrics/
GetMetrics(u) ==
    /\ request' = NoRequest
    /\ response' = [op |-> "get_metrics", body |-> get_metrics(u)]
    /\ UNCHANGED <<chat_messages, documents, now, last_read, thread_vars>>

\* GET /recovery/chart
GetRecoveryChartData(u) ==
    /\ request' = NoRequest
    /\ response' = [op |-> "get_recovery_chart_data",
                    body |-> get_recovery_chart_data(now, u)]
    /\ UNCHANGED <<chat_messages, documents, now, last_read, thread_vars>>

(* ------------------ create_message on concurrent threads --------------- *)
\* a worker thread is handed a POST /chat-messages/ body and evaluates
\* len(chat_messages) + 1 into the id string
ReadLength(t, content, sender) ==
    /\ pc[t] = "call"
    /\ t_request' = [t_request EXCEPT ![t] = ChatMessageCreate(content, sender)]
    /\ t_id' = [t_id EXCEPT ![t] = message_id(Len(chat_messages))]
    /\ pc' = [pc EXCEPT ![t] = "build"]
    /\ UNCHANGED <<chat_messages, documents, now, request, response, last_read,
                   t_message>>

\* the thread reads the clock and constructs new_message
BuildRecord(t) ==
    /\ pc[t] = "build"
    /\ t_message' = [t_message EXCEPT ![t] = ChatMessage(t_id[t], t_request[t], now)]
    /\ pc' = [pc EXCEPT ![t] = "append"]
    /\ UNCHANGED <<chat_messages, documents, now, request, response, last_read,
                   t_id, t_request>>

\* chat_messages.append(new_message); return new_message
AppendRecord(t) ==
    /\ pc[t] = "append"
    /\ chat_messages' = append(chat_messages, t_message[t])
    /\ pc' = [pc EXCEPT ![t] = "done"]
    /\ UNCHANGED <<documents, now, request, response, last_read,
                   t_id, t_message, t_request>>

(* ------------------------------ start-up ------------------------------- *)
Init ==
    /\ chat_messages = <<>>
    /\ documents = <<>>
    /\ now \in StartTimes
    /\ request = NoRequest
    /\ response = NoResponse
    /\ last_read = NoRead
    /\ pc = [t \in Threads |-> "call"]
    /\ t_id = [t \in Threads |-> <<>>]
    /\ t_message = [t \in Threads |-> <<>>]
    /\ t_request = [t \in Threads |-> <<>>]

\* requests served one at a time
Next ==
    \/ \E content \in Contents, sender \in Senders : CreateMessage(content, sender)
    \/ GetAllMessages
    \/ \E title \in Titles, content \in Bodies : CreateDocument(title, content)
    \/ GetAllDocuments
    \/ Tick

Spec == Init /\ [][Next]_vars

\* the generator's endpoints, with both stores in use
NextMetrics ==
    \/ \E u \in [1..5 -> RandomSource] : GetMetrics(u)
    \/ \E u \in [1..7 -> RandomSource] : GetRecoveryChartData(u)
    \/ CreateMessage("hi", "alice")
    \/ CreateDocument("t1", "c1")

SpecMetrics == Init /\ [][NextMetrics]_vars

\* NumThreads overlapping create_message calls, one per worker thread
NextThreads ==
    \/ \E t \in Threads, content \in Contents, sender \in Senders :
          ReadLength(t, content, sender)
    \/ \E t \in Threads : BuildRecord(t)
    \/ \E t \in Threads : AppendRecord(t)
    \/ Tick

SpecThreads == Init /\ [][NextThreads]_vars

(* ============================ properties =============================== *)
Range(list) == {list[n] : n \in DOMAIN list}
IsPrefix(a, b) == Len(a) <= Len(b) /\ SubSeq(b, 1, Len(a)) = a
Last(list) == list[Len(list)]

\* the calendar, written independently of ord2ymd
IsLeapYear(y) == y % 4 = 0 /\ (y % 100 # 0 \/ y % 400 = 0)
MonthLength(y, m) == IF m = 2 /\ IsLeapYear(y) THEN 29 ELSE DAYS_IN_MONTH[m]
NextCalendarDay(d) ==
    IF d.day < MonthLength(d.year, d.month)
    THEN [d EXCEPT !.day = d.day + 1]
    ELSE IF d.month < 12
         THEN [year |-> d.year, month |-> d.month + 1, day |-> 1]
         ELSE [year |-> d.year + 1, month |-> 1, day |-> 1]
DigitValue(c) == CHOOSE k \in 0..9 : DigitChars[k + 1] = c
RECURSIVE ParseDecimal(_)
ParseDecimal(chars) ==
    IF chars = <<>> THEN 0
    ELSE 10 * ParseDecimal(SubSeq(chars, 1, Len(chars) - 1))
           + DigitValue(chars[Len(chars)])
\* "YYYY-MM-DD" read back into year, month and day
ParseDate(text) ==
    [year |-> ParseDecimal(SubSeq(text, 1, 4)),
     month |-> ParseDecimal(SubSeq(text, 6, 7)),
     day |-> ParseDecimal(SubSeq(text, 9, 10))]
IsDateText(text) == Len(text) = 10 /\ text[5] = "-" /\ text[8] = "-"
\* days from 0001-01-01 (day 1) to the date, counted month by month
RECURSIVE DaysBeforeMonth(_, _)
DaysBeforeMonth(y, m) ==
    IF m = 1 THEN 0 ELSE DaysBeforeMonth(y, m - 1) + MonthLength(y, m - 1)
DayNumber(d) ==
    LET y == d.year - 1
    IN  y * 365 + y \div 4 - y \div 100 + y \div 400
          + DaysBeforeMonth(d.year, d.month) + d.day
Today == now \div TicksPerDay

Returned(op) == response.op = op
\* a step in which the handler `op` returned a value
Returns(op) == response'.op = op /\ response' # response
AllDone == \A t \in Threads : pc[t] = "done"
NumDone == Cardinality({t \in Threads : pc[t] = "done"})

\* C1: with create_message calls served one at a time from the empty store,
\* the message at every 1-based position n has id "msg_n", so the ids are
\* pairwise distinct and are exactly msg_1..msg_k for a store of k messages.
C1_IdsArePositions ==
    /\ \A n \in 1..Len(chat_messages) : chat_messages[n].id = <<"msg_">> \o str(n)
    /\ \A m, n \in 1..Len(chat_messages) :
          chat_messages[m].id = chat_messages[n].id => m = n
C1_Witness ==
    /\ Len(chat_messages) >= 2
    /\ Returned("create_message")

\* C2: when the create_message calls overlap (read the length, build the
\* record, append), every interleaving ends with ids msg_1..msg_N, all
\* distinct and without a gap.
C2_ConcurrentIdsGapless ==
    AllDone =>
        /\ Len(chat_messages) = NumThreads
        /\ \A n \in 1..Len(chat_messages) :
              chat_messages[n].id = <<"msg_">> \o str(n)

\* C3: the chat store is an append-only log: it starts empty, a
\* create_message makes it exactly one longer, no step makes it shorter, and
\* the store before a step is a prefix of the store after it.
C3_AppendOnlyLog ==
    /\ chat_messages = <<>>
    /\ [][/\ IsPrefix(chat_messages, chat_messages')
          /\ Len(chat_messages') >= Len(chat_messages)
          /\ Returns("create_message") =>
                Len(chat_messages') = Len(chat_messages) + 1]_vars
C3_Witness ==
    /\ Len(chat_messages) >= 2
    /\ chat_messages[1].timestamp < now
    /\ documents # <<>>

\* C4: with create_document calls served one at a time from the empty store,
\* every call appends one document whose title and content are the call's
\* inputs, the document at position n has id "doc_n", and get_all_documents
\* returns the documents in that insertion order.
C4_DocumentsInOrder ==
    /\ [](\A n \in 1..Len(documents) : documents[n].id = <<"doc_">> \o str(n))
    /\ [](Returned("get_all_documents") => response.body = documents)
    /\ [][/\ IsPrefix(documents, documents')
          /\ Returns("create_document") =>
                /\ Len(documents') = Len(documents) + 1
                /\ Last(documents').title = request'.title
                /\ Last(documents').content = request'.content]_vars
C4_Witness ==
    /\ Len(documents) >= 2
    /\ Returned("get_all_documents")
    /\ documents[1].content # documents[2].content

\* C5: create_message succeeds for every pair of strings, the empty string
\* included, in every store state, and the record it returns is the last
\* element of the store, with content and sender equal to the inputs.
C5_CreateAlwaysSucceeds ==
    /\ Len(chat_messages) < MaxMessages =>
          \A content \in Contents, sender \in Senders :
              ENABLED CreateMessage(content, sender)
    /\ Returned("create_message") =>
          /\ chat_messages # <<>>
          /\ response.body = Last(chat_messages)
          /\ response.body.content = request.content
          /\ response.body.sender = request.sender
C5_Witness ==
    /\ Returned("create_message")
    /\ Len(chat_messages) >= 2
    /\ request.content = ""

\* C6: get_all_messages returns the whole chat store in insertion order (the
\* empty sequence before any create_message), changes neither store, and two
\* reads with no create_message between them return equal sequences.
C6_ReadsIdempotent ==
    /\ [](Returned("get_all_messages") => response.body = chat_messages)
    /\ [](last_read.fresh => last_read.body = chat_messages)
    /\ [][/\ Returns("get_all_messages") =>
                /\ UNCHANGED <<chat_messages, documents>>
                /\ last_read.fresh => response'.body = last_read.body
          /\ Returns("get_all_documents") => UNCHANGED <<chat_messages, documents>>
         ]_vars
C6_Witness ==
    /\ Returned("get_all_messages")
    /\ Len(response.body) >= 2
    /\ documents # <<>>

\* C7: with a wall clock that never goes backwards, the timestamps of the
\* messages are non-decreasing in store order.
C7_TimestampsNonDecreasing ==
    \A n \in 1..(Len(chat_messages) - 1) :
        chat_messages[n].timestamp <= chat_messages[n + 1].timestamp
C7_Witness ==
    /\ Len(chat_messages) >= 2
    /\ chat_messages[1].timestamp < chat_messages[2].timestamp

\* C8: every value get_metrics returns has recovery_score in 70..95,
\* mobility_score in 60..90, pain_level in 1..5, exercises_completed in 3..15
\* and streak_days in 1..10, and get_metrics changes neither store.
C8_MetricsInBounds ==
    /\ [](Returned("get_metrics") =>
            /\ response.body.recovery_score \in 70..95
            /\ response.body.mobility_score \in 60..90
            /\ response.body.pain_level \in 1..5
            /\ response.body.exercises_completed \in 3..15
            /\ response.body.streak_days \in 1..10)
    /\ [][Returns("get_metrics") => UNCHANGED <<chat_messages, documents>>]_vars
C8_Witness ==
    /\ Returned("get_metrics")
    /\ response.body.recovery_score = 95
    /\ response.body.pain_level = 1
    /\ chat_messages # <<>>
    /\ documents # <<>>

\* C9: get_recovery_chart_data returns exactly 7 points, oldest first: the
\* point at 0-based index i is dated today-(6-i), each date is the calendar
\* day after the one before it, the last date is the current date, and every
\* score is in 65..95.
C9_ChartSevenDays ==
    Returned("get_recovery_chart_data") =>
        /\ Len(response.body) = 7
        /\ \A k \in 1..7 :
              /\ IsDateText(response.body[k].date)
              /\ DayNumber(ParseDate(response.body[k].date)) = Today - (6 - (k - 1))
              /\ response.body[k].score \in 65..95
        /\ \A k \in 1..6 :
              ParseDate(response.body[k + 1].date)
                = NextCalendarDay(ParseDate(response.body[k].date))
        /\ DayNumber(ParseDate(response.body[7].date)) = Today
C9_Witness ==
    /\ Returned("get_recovery_chart_data")
    /\ ParseDate(response.body[1].date).year < ParseDate(response.body[7].date).year
    /\ response.body[1].score = 65
    /\ response.body[7].score = 95

\* C10: no append is lost when create_message calls overlap: every
\* completed call has made the store exactly one longer, so once all
\* NumThreads calls are done the store holds NumThreads more messages than
\* before, and each call's returned record is in the store, also when two
\* records carry the same id.
C10_NoAppendLost ==
    /\ [](AllDone => Len(chat_messages) = NumThreads)
    /\ [](\A t \in Threads : pc[t] = "done" => t_message[t] \in Range(chat_messages))
    /\ [][Len(chat_messages') - NumDone' = Len(chat_messages) - NumDone]_vars
C10_Witness ==
    /\ AllDone
    /\ \E m, n \in 1..Len(chat_messages) :
          m # n /\ chat_messages[m].id = chat_messages[n].id

====
